---- MODULE Spec2Model ----
(***************************************************************************)
(* Model of RedisP/main.py: a Flask application whose routes each run one  *)
(* Redis command through one shared client r, log the outcome and answer   *)
(* with a JSON body and an HTTP status.                                    *)
(*                                                                         *)
(* A request is a URL path, a sequence of segments.  The route table       *)
(* (the @app.route decorators) dispatches it to a handler; the handler     *)
(* runs its command against the store and builds the response.  The store  *)
(* is the Redis keyspace, modelled with the command semantics the handlers *)
(* rely on (type check, creation on first write, WRONGTYPE errors).        *)
(***************************************************************************)
EXTENDS Integers, Sequences, FiniteSets, TLC

(* ------------------------------- state --------------------------------- *)

VARIABLES
    started,  \* the module body has run (the startup ping was made)
    stdout,   \* what print() wrote
    up,       \* the Redis server accepts this client's commands
    store,    \* the Redis keyspace
    log,      \* the lines logging wrote to flask_redis_log.txt
    last,     \* the last request and its response
    nreq,     \* requests served so far
    pushes    \* per key: the values pushed since the key was absent

vars == <<started, stdout, up, store, log, last, nreq, pushes>>

(* ------------------------------ bounds --------------------------------- *)

\* Number of requests served in one run of the process.
MaxReqs == 3

\* Largest integer the decimal conversions are computed for.
MaxDecimal == 12

(* --------------------------- path segments ----------------------------- *)

\* Segments used in a <key> position of every route.  "view" and "add" are
\* also static segments of the route table.
KeySegs == {"add", "view"}

\* Segments used in the <key> position of /set, /get and /list push:
\* "visit_count" is the key of /visits.
ScalarKeySegs == KeySegs \cup {"visit_count"}

\* Segments used in a <value> position.
ValSegs == {"x", "7"}

\* Segments used in a <member> position.
MemberSegs == {"x"}

\* Segments used in a <field> position.
FieldSegs == {"f"}

\* Segments used in the <value> position of a hash field.
HashValSegs == {"x"}

\* Segments used in the <int:score> position.
ScoreSegs == {"5"}

\* A URL whose <int:score> segment is not an integer.
BadScorePaths == {<<"zset", "add", "x", "x">>}

\* Keys another client of the store wrote before this process started;
\* requests read them with /get.
ForeignKeys == {"raw", "empty"}

\* Every segment that can reach a handler as its key argument.
Segs == ScalarKeySegs \cup ValSegs \cup ForeignKeys

(* ----------------------- text, bytes and integers ---------------------- *)

Digits == <<"0", "1", "2", "3", "4", "5", "6", "7", "8", "9">>

\* str(n) for n >= 0: the decimal numeral of n.
RECURSIVE IntToStr(_)
IntToStr(n) ==
    IF n < 10 THEN Digits[n + 1]
    ELSE IntToStr(n \div 10) \o Digits[(n % 10) + 1]

NotInt == [ok |-> FALSE, n |-> 0]

\* int(s) for a text of decimal digits: the integer the numeral denotes,
\* NotInt when the text is no numeral.
StrToInt(s) ==
    IF \E n \in 0..MaxDecimal : IntToStr(n) = s
    THEN [ok |-> TRUE, n |-> CHOOSE n \in 0..MaxDecimal : IntToStr(n) = s]
    ELSE NotInt

\* str.encode('utf-8'), as the client does for every key and value it sends.
Encode(s) == [utf8 |-> TRUE, text |-> s]

\* Bytes that are not valid UTF-8 (written by another client of the store).
RawBytes == [utf8 |-> FALSE, text |-> "\\xff"]

\* The empty byte string.
EmptyBytes == Encode("")

CanDecode(b) == b.utf8

\* bytes.decode('utf-8'); defined when CanDecode(b).
Decode(b) == b.text

(* ------------------------------ the store ------------------------------ *)

StoreKeys == {Encode(s) : s \in Segs}

Absent == [type |-> "none", val |-> <<>>]

\* The keyspace when the process starts: the keys of this service absent,
\* and two keys of another client, a string that is not UTF-8 and an empty
\* string.
InitialStore ==
    [k \in StoreKeys |->
        IF k = Encode("raw") THEN [type |-> "string", val |-> RawBytes]
        ELSE IF k = Encode("empty") THEN [type |-> "string", val |-> EmptyBytes]
        ELSE Absent]

\* Exceptions a command can raise.
NoExc == "none"
ConnectionError == "ConnectionError"
WrongType == "WRONGTYPE"
NotInteger == "ERR value is not an integer or out of range"
UnicodeDecodeError == "UnicodeDecodeError"

\* redis.exceptions.ResponseError and its subclasses.
IsResponseError(e) == e \in {WrongType, NotInteger}

Ok(st, v) == [exc |-> NoExc, val |-> v, store |-> st]
Raise(st, e) == [exc |-> e, val |-> <<>>, store |-> st]

\* SET key value: replaces whatever the key held.
RedisSet(st, conn, key, value) ==
    IF ~conn THEN Raise(st, ConnectionError)
    ELSE Ok([st EXCEPT ![Encode(key)] =
                [type |-> "string", val |-> Encode(value)]], TRUE)

\* Python's None, the client's reply for nil.
None == [nil |-> TRUE]

\* GET key: nil when absent.
RedisGet(st, conn, key) ==
    LET e == st[Encode(key)] IN
    IF ~conn THEN Raise(st, ConnectionError)
    ELSE IF e.type = "none" THEN Ok(st, None)
    ELSE IF e.type = "string" THEN Ok(st, e.val)
    ELSE Raise(st, WrongType)

\* RPUSH key value: appends, creating the list.
RedisRPush(st, conn, key, value) ==
    LET e == st[Encode(key)] IN
    IF ~conn THEN Raise(st, ConnectionError)
    ELSE IF e.type \notin {"none", "list"} THEN Raise(st, WrongType)
    ELSE LET l == Append(e.val, Encode(value)) IN
         Ok([st EXCEPT ![Encode(key)] = [type |-> "list", val |-> l]], Len(l))

\* LPUSH key value: prepends, creating the list.
RedisLPush(st, conn, key, value) ==
    LET e == st[Encode(key)] IN
    IF ~conn THEN Raise(st, ConnectionError)
    ELSE IF e.type \notin {"none", "list"} THEN Raise(st, WrongType)
    ELSE LET l == <<Encode(value)>> \o e.val IN
         Ok([st EXCEPT ![Encode(key)] = [type |-> "list", val |-> l]], Len(l))

\* LRANGE key 0 -1: the whole list, empty when the key is absent.
RedisLRange(st, conn, key) ==
    LET e == st[Encode(key)] IN
    IF ~conn THEN Raise(st, ConnectionError)
    ELSE IF e.type = "none" THEN Ok(st, <<>>)
    ELSE IF e.type = "list" THEN Ok(st, e.val)
    ELSE Raise(st, WrongType)

\* SADD key member.
RedisSAdd(st, conn, key, value) ==
    LET e == st[Encode(key)] IN
    IF ~conn THEN Raise(st, ConnectionError)
    ELSE IF e.type = "none"
         THEN Ok([st EXCEPT ![Encode(key)] =
                     [type |-> "set", val |-> {Encode(value)}]], 1)
    ELSE IF e.type = "set"
         THEN Ok([st EXCEPT ![Encode(key)] =
                     [type |-> "set", val |-> e.val \cup {Encode(value)}]],
                 IF Encode(value) \in e.val THEN 0 ELSE 1)
    ELSE Raise(st, WrongType)

\* SMEMBERS key.
RedisSMembers(st, conn, key) ==
    LET e == st[Encode(key)] IN
    IF ~conn THEN Raise(st, ConnectionError)
    ELSE IF e.type = "none" THEN Ok(st, {})
    ELSE IF e.type = "set" THEN Ok(st, e.val)
    ELSE Raise(st, WrongType)

\* A hash or sorted set as a function, with one entry set.
With(f, k, v) == [x \in DOMAIN f \cup {k} |-> IF x = k THEN v ELSE f[x]]

\* HSET key field value.
RedisHSet(st, conn, key, field, value) ==
    LET e == st[Encode(key)] IN
    IF ~conn THEN Raise(st, ConnectionError)
    ELSE IF e.type \notin {"none", "hash"} THEN Raise(st, WrongType)
    ELSE Ok([st EXCEPT ![Encode(key)] =
                [type |-> "hash",
                 val |-> With(e.val, Encode(field), Encode(value))]],
            IF e.type = "hash" /\ Encode(field) \in DOMAIN e.val THEN 0 ELSE 1)

\* HGETALL key.
RedisHGetAll(st, conn, key) ==
    LET e == st[Encode(key)] IN
    IF ~conn THEN Raise(st, ConnectionError)
    ELSE IF e.type = "none" THEN Ok(st, <<>>)
    ELSE IF e.type = "hash" THEN Ok(st, e.val)
    ELSE Raise(st, WrongType)

\* ZADD key score member.
RedisZAdd(st, conn, key, member, score) ==
    LET e == st[Encode(key)] IN
    IF ~conn THEN Raise(st, ConnectionError)
    ELSE IF e.type \notin {"none", "zset"} THEN Raise(st, WrongType)
    ELSE Ok([st EXCEPT ![Encode(key)] =
                [type |-> "zset", val |-> With(e.val, Encode(member), score)]],
            IF e.type = "zset" /\ Encode(member) \in DOMAIN e.val THEN 0 ELSE 1)

\* First byte of a member, the order of members with equal scores.
ByteOrd(b) == IF b.text = "7" THEN 55 ELSE IF b.text = "x" THEN 120 ELSE 0

ZBefore(z, m1, m2) ==
    \/ z[m1] < z[m2]
    \/ z[m1] = z[m2] /\ ByteOrd(m1) <= ByteOrd(m2)

\* ZRANGE key 0 -1 WITHSCORES: (member, score) pairs by score, then member.
RedisZRange(st, conn, key) ==
    LET e == st[Encode(key)] IN
    IF ~conn THEN Raise(st, ConnectionError)
    ELSE IF e.type = "none" THEN Ok(st, <<>>)
    ELSE IF e.type = "zset"
         THEN LET z == e.val
                  n == Cardinality(DOMAIN z)
                  s == CHOOSE q \in [1..n -> DOMAIN z] :
                          /\ \A i, j \in 1..n : i # j => q[i] # q[j]
                          /\ \A i, j \in 1..n : i < j => ZBefore(z, q[i], q[j])
              IN Ok(st, [i \in 1..n |-> <<s[i], [float |-> z[s[i]]]>>])
    ELSE Raise(st, WrongType)

\* INCR key: the integer stored plus one, stored back as its numeral.
RedisIncr(st, conn, key) ==
    LET e == st[Encode(key)]
        old == IF e.type = "none" THEN [ok |-> TRUE, n |-> 0]
               ELSE IF CanDecode(e.val) THEN StrToInt(Decode(e.val))
               ELSE NotInt
    IN
    IF ~conn THEN Raise(st, ConnectionError)
    ELSE IF e.type \notin {"none", "string"} THEN Raise(st, WrongType)
    ELSE IF ~old.ok THEN Raise(st, NotInteger)
    ELSE Ok([st EXCEPT ![Encode(key)] =
                [type |-> "string", val |-> Encode(IntToStr(old.n + 1))]],
            old.n + 1)

(* ---------------------------- the route table -------------------------- *)

StaticPart(s) == [kind |-> "static", name |-> s]
StrPart(a) == [kind |-> "str", name |-> a]
IntPart(a) == [kind |-> "int", name |-> a]

\* The rules the @app.route decorators register, in source order.
Rules ==
    << [endpoint |-> "home", pat |-> <<>>],
       [endpoint |-> "set_value",
        pat |-> <<StaticPart("set"), StrPart("key"), StrPart("value")>>],
       [endpoint |-> "get_value", pat |-> <<StaticPart("get"), StrPart("key")>>],
       [endpoint |-> "push_list",
        pat |-> <<StaticPart("list"), StrPart("key"), StaticPart("push"), StrPart("value")>>],
       [endpoint |-> "get_list", pat |-> <<StaticPart("list"), StrPart("key")>>],
       [endpoint |-> "add_set_member",
        pat |-> <<StaticPart("set"), StaticPart("add"), StrPart("key"), StrPart("value")>>],
       [endpoint |-> "view_set",
        pat |-> <<StaticPart("set"), StaticPart("view"), StrPart("key")>>],
       [endpoint |-> "set_hash_field",
        pat |-> <<StaticPart("hash"), StrPart("key"), StrPart("field"), StrPart("value")>>],
       [endpoint |-> "view_hash",
        pat |-> <<StaticPart("hash"), StaticPart("view"), StrPart("key")>>],
       [endpoint |-> "add_zset_member",
        pat |-> <<StaticPart("zset"), StrPart("key"), StrPart("member"), IntPart("score")>>],
       [endpoint |-> "view_zset",
        pat |-> <<StaticPart("zset"), StaticPart("view"), StrPart("key")>>],
       [endpoint |-> "visit_counter", pat |-> <<StaticPart("visits")>>] >>

\* A segment matches a static part when equal to it, an int converter when
\* it is a decimal numeral, the default (string) converter always.
SegMatches(part, seg) ==
    IF part.kind = "static" THEN seg = part.name
    ELSE IF part.kind = "int" THEN StrToInt(seg).ok
    ELSE TRUE

RuleMatches(rule, path) ==
    /\ Len(path) = Len(rule.pat)
    /\ \A i \in 1..Len(path) : SegMatches(rule.pat[i], path[i])

\* The router tries a static part before a converter at every segment.
PartWeight(part) == IF part.kind = "static" THEN 0 ELSE 1

Preferred(r1, r2) ==
    \/ r1 = r2
    \/ \E i \in 1..Len(r1.pat) :
          /\ PartWeight(r1.pat[i]) < PartWeight(r2.pat[i])
          /\ \A j \in 1..(i - 1) : PartWeight(r1.pat[j]) = PartWeight(r2.pat[j])

NoRule == [endpoint |-> "not_found", pat |-> <<>>]

\* The rule a path is dispatched to, NoRule when none matches (Flask
\* answers 404 itself).
Dispatch(path) ==
    LET matching == {i \in 1..Len(Rules) : RuleMatches(Rules[i], path)} IN
    IF matching = {} THEN NoRule
    ELSE Rules[CHOOSE i \in matching :
                  \A j \in matching : Preferred(Rules[i], Rules[j])]

\* The request paths considered: every route's URL over the segment sets.
Paths ==
    {<<>>, <<"visits">>}
    \cup {<<"set", k, v>> : k \in ScalarKeySegs, v \in ValSegs}
    \cup {<<"get", k>> : k \in ScalarKeySegs \cup ForeignKeys}
    \cup {<<"list", k, "push", v>> : k \in ScalarKeySegs, v \in ValSegs}
    \cup {<<"list", k>> : k \in KeySegs}
    \cup {<<"set", "add", k, v>> : k \in KeySegs, v \in ValSegs}
    \cup {<<"set", "view", k>> : k \in KeySegs}
    \cup {<<"hash", k, f, v>> : k \in KeySegs, f \in FieldSegs, v \in HashValSegs}
    \cup {<<"hash", "view", k>> : k \in KeySegs}
    \cup {<<"zset", k, m, s>> : k \in KeySegs, m \in MemberSegs, s \in ScoreSegs}
    \cup {<<"zset", "view", k>> : k \in KeySegs}
    \cup BadScorePaths

\* The route table applied to every path considered.
Route == [p \in Paths |-> Dispatch(p)]

\* The paths the route table dispatches to an endpoint.
PathsOf(ep) == {p \in Paths : Route[p].endpoint = ep}

\* The value the rule's converter passes for argument a.
Arg(path, a) ==
    LET pat == Route[path].pat IN
    path[CHOOSE i \in 1..Len(pat) : pat[i].kind # "static" /\ pat[i].name = a]

(* ------------------------------ handlers ------------------------------- *)

\* logging.info / logging.error: one line appended to the log file, kept
\* as its level.
Info(lg) == Append(lg, [level |-> "INFO"])
Error(lg) == Append(lg, [level |-> "ERROR"])

\* What a handler leaves behind: the store, the log, and the response
\* (status and body); raised is the exception its try block raised, escaped
\* whether that exception left the handler.
Result(st, lg, status, body, raised) ==
    [store |-> st, log |-> lg, status |-> status, body |-> body,
     raised |-> raised, escaped |-> FALSE]

\* An exception no except clause of the handler catches: Flask answers with
\* its own 500 page.
Escapes(st, lg, raised) ==
    [store |-> st, log |-> lg, status |-> 500,
     body |-> [html |-> "Internal Server Error"],
     raised |-> raised, escaped |-> TRUE]

\* jsonify(status="error", message=str(e)), 500
ErrorBody(e) == [status |-> "error", message |-> e]

\* The truth value of a GET reply: None and b"" are false.
Truthy(v) == v # None /\ v # EmptyBytes

home(st, conn, lg) ==
    Result(st, lg, 200,
           [message |-> "Welcome to Flask + Redis Example!",
            endpoints |-> [i \in 1..(Len(Rules) - 1) |-> Rules[i + 1].pat]],
           NoExc)

\* The client bound only when the startup ping succeeded: after a failed
\* startup every command fails.
set_value_client_lost(st, conn, lg, key, value) ==
    LET r == RedisSet(st, conn /\ stdout # <<"Failed to connect to Redis.">>,
                      key, value) IN
    IF r.exc = NoExc
    THEN Result(r.store, Info(lg), 200,
                [status |-> "success", message |-> <<"Stored", key, value>>],
                NoExc)
    ELSE Result(r.store, Error(lg), 500,
                ErrorBody(r.exc), r.exc)

set_value(st, conn, lg, key, value) ==
    LET r == RedisSet(st, conn, key, value) IN
    IF r.exc = NoExc
    THEN Result(r.store, Info(lg), 200,
                [status |-> "success", message |-> <<"Stored", key, value>>],
                NoExc)
    ELSE Result(r.store, Error(lg), 500,
                ErrorBody(r.exc), r.exc)

\* GETDEL key: GET, then the key is deleted.
RedisGetDel(st, conn, key) ==
    LET r == RedisGet(st, conn, key) IN
    IF r.exc # NoExc THEN r
    ELSE Ok([st EXCEPT ![Encode(key)] = Absent], r.val)

get_value_getdel(st, conn, lg, key) ==
    LET r == RedisGetDel(st, conn, key) IN
    IF r.exc # NoExc
    THEN Result(r.store, Error(lg), 500,
                ErrorBody(r.exc), r.exc)
    ELSE IF Truthy(r.val)
    THEN IF CanDecode(r.val)
         THEN Result(r.store, Info(lg), 200,
                     [status |-> "success", key |-> key,
                      value |-> Decode(r.val)], NoExc)
         ELSE Result(r.store, Error(lg), 500,
                     ErrorBody(UnicodeDecodeError), UnicodeDecodeError)
    ELSE Result(r.store, lg, 404,
                [status |-> "error", message |-> <<"Key not found", key>>],
                NoExc)

get_value(st, conn, lg, key) ==
    LET r == RedisGet(st, conn, key) IN
    IF r.exc # NoExc
    THEN Result(r.store, Error(lg), 500,
                ErrorBody(r.exc), r.exc)
    ELSE IF Truthy(r.val)
    THEN IF CanDecode(r.val)
         THEN Result(r.store, Info(lg), 200,
                     [status |-> "success", key |-> key,
                      value |-> Decode(r.val)], NoExc)
         ELSE Result(r.store, Error(lg), 500,
                     ErrorBody(UnicodeDecodeError), UnicodeDecodeError)
    ELSE Result(r.store, lg, 404,
                [status |-> "error", message |-> <<"Key not found", key>>],
                NoExc)

push_list_rpush(st, conn, lg, key, value) ==
    LET r == RedisRPush(st, conn, key, value) IN
    IF r.exc = NoExc
    THEN Result(r.store, Info(lg), 200,
                [status |-> "success", message |-> <<"Pushed", value, key>>],
                NoExc)
    ELSE Result(r.store, Error(lg), 500,
                ErrorBody(r.exc), r.exc)

push_list(st, conn, lg, key, value) ==
    LET r == RedisLPush(st, conn, key, value) IN
    IF r.exc = NoExc
    THEN Result(r.store, Info(lg), 200,
                [status |-> "success", message |-> <<"Pushed", value, key>>],
                NoExc)
    ELSE Result(r.store, Error(lg), 500,
                ErrorBody(r.exc), r.exc)

get_list_no_empty_check(st, conn, lg, key) ==
    LET r == RedisLRange(st, conn, key) IN
    IF r.exc # NoExc
    THEN Result(r.store, Error(lg), 500,
                ErrorBody(r.exc), r.exc)
    ELSE Result(r.store, lg, 200,
                [status |-> "success", key |-> key,
                 values |-> [i \in 1..Len(r.val) |-> Decode(r.val[i])]],
                NoExc)

get_list(st, conn, lg, key) ==
    LET r == RedisLRange(st, conn, key) IN
    IF r.exc # NoExc
    THEN Result(r.store, Error(lg), 500,
                ErrorBody(r.exc), r.exc)
    ELSE IF \E i \in 1..Len(r.val) : ~CanDecode(r.val[i])
    THEN Result(r.store, Error(lg), 500,
                ErrorBody(UnicodeDecodeError), UnicodeDecodeError)
    ELSE IF r.val = <<>>
    THEN Result(r.store, lg, 404,
                [status |-> "empty", message |-> <<"List is empty", key>>],
                NoExc)
    ELSE Result(r.store, lg, 200,
                [status |-> "success", key |-> key,
                 values |-> [i \in 1..Len(r.val) |-> Decode(r.val[i])]],
                NoExc)

add_set_member_no_wrongtype(st, conn, lg, key, value) ==
    LET r == RedisSAdd(st, conn, key, value) IN
    IF r.exc = NoExc
    THEN Result(r.store, Info(lg), 200,
                [status |-> "success", message |-> <<"Added", value, key>>],
                NoExc)
    ELSE Result(r.store, Error(lg), 500,
                ErrorBody(r.exc), r.exc)

add_set_member_only_response_error(st, conn, lg, key, value) ==
    LET r == RedisSAdd(st, conn, key, value) IN
    IF r.exc = NoExc
    THEN Result(r.store, Info(lg), 200,
                [status |-> "success", message |-> <<"Added", value, key>>],
                NoExc)
    ELSE IF IsResponseError(r.exc)
    THEN IF r.exc = WrongType
         THEN Result(r.store, lg, 400,
                     [status |-> "error",
                      message |-> <<"Key exists but is not a set", key>>],
                     r.exc)
         ELSE Result(r.store, Error(lg), 500,
                     ErrorBody(r.exc), r.exc)
    ELSE Escapes(r.store, lg, r.exc)

add_set_member(st, conn, lg, key, value) ==
    LET r == RedisSAdd(st, conn, key, value) IN
    IF r.exc = NoExc
    THEN Result(r.store, Info(lg), 200,
                [status |-> "success", message |-> <<"Added", value, key>>],
                NoExc)
    ELSE IF IsResponseError(r.exc)
    THEN IF r.exc = WrongType
         THEN Result(r.store, lg, 400,
                     [status |-> "error",
                      message |-> <<"Key exists but is not a set", key>>],
                     r.exc)
         ELSE Result(r.store, Error(lg), 500,
                     ErrorBody(r.exc), r.exc)
    ELSE Result(r.store, Error(lg), 500,
                ErrorBody(r.exc), r.exc)

view_set(st, conn, lg, key) ==
    LET r == RedisSMembers(st, conn, key) IN
    IF r.exc # NoExc
    THEN Result(r.store, Error(lg), 500,
                ErrorBody(r.exc), r.exc)
    ELSE IF r.val = {}
    THEN Result(r.store, lg, 404,
                [status |-> "empty", message |-> <<"Set is empty", key>>],
                NoExc)
    ELSE IF \E m \in r.val : ~CanDecode(m)
    THEN Result(r.store, Error(lg), 500,
                ErrorBody(UnicodeDecodeError), UnicodeDecodeError)
    ELSE Result(r.store, lg, 200,
                [status |-> "success", key |-> key,
                 members |-> {Decode(m) : m \in r.val}], NoExc)

set_hash_field(st, conn, lg, key, field, value) ==
    LET r == RedisHSet(st, conn, key, field, value) IN
    IF r.exc = NoExc
    THEN Result(r.store, Info(lg), 200,
                [status |-> "success", message |-> <<"Set", field, value, key>>],
                NoExc)
    ELSE Result(r.store, Error(lg), 500,
                ErrorBody(r.exc), r.exc)

view_hash(st, conn, lg, key) ==
    LET r == RedisHGetAll(st, conn, key) IN
    IF r.exc # NoExc
    THEN Result(r.store, Error(lg), 500,
                ErrorBody(r.exc), r.exc)
    ELSE IF DOMAIN r.val = {}
    THEN Result(r.store, lg, 404,
                [status |-> "empty", message |-> <<"Hash is empty", key>>],
                NoExc)
    ELSE IF \E k \in DOMAIN r.val : ~CanDecode(k) \/ ~CanDecode(r.val[k])
    THEN Result(r.store, Error(lg), 500,
                ErrorBody(UnicodeDecodeError), UnicodeDecodeError)
    ELSE Result(r.store, lg, 200,
                [status |-> "success", key |-> key,
                 fields |-> [f \in {Decode(k) : k \in DOMAIN r.val} |->
                               Decode(r.val[CHOOSE k \in DOMAIN r.val :
                                               Decode(k) = f])]],
                NoExc)

add_zset_member(st, conn, lg, key, member, score) ==
    LET r == RedisZAdd(st, conn, key, member, score) IN
    IF r.exc = NoExc
    THEN Result(r.store, Info(lg), 200,
                [status |-> "success",
                 message |-> <<"Added", member, score, key>>], NoExc)
    ELSE Result(r.store, Error(lg), 500,
                ErrorBody(r.exc), r.exc)

view_zset(st, conn, lg, key) ==
    LET r == RedisZRange(st, conn, key) IN
    IF r.exc # NoExc
    THEN Result(r.store, Error(lg), 500,
                ErrorBody(r.exc), r.exc)
    ELSE IF r.val = <<>>
    THEN Result(r.store, lg, 404,
                [status |-> "empty", message |-> <<"Sorted set is empty", key>>],
                NoExc)
    ELSE IF \E i \in 1..Len(r.val) : ~CanDecode(r.val[i][1])
    THEN Result(r.store, Error(lg), 500,
                ErrorBody(UnicodeDecodeError), UnicodeDecodeError)
    ELSE Result(r.store, lg, 200,
                [status |-> "success", key |-> key,
                 members |-> [i \in 1..Len(r.val) |->
                                [member |-> Decode(r.val[i][1]),
                                 score |-> r.val[i][2]]]], NoExc)

\* The key of the page visit counter.
VisitKey == "visit_count"

visit_counter(st, conn, lg) ==
    LET r == RedisIncr(st, conn, VisitKey) IN
    IF r.exc = NoExc
    THEN Result(r.store, Info(lg), 200,
                [message |-> "Page visit counter", total_visits |-> r.val],
                NoExc)
    ELSE Result(r.store, Error(lg), 500,
                ErrorBody(r.exc), r.exc)

\* No rule matches: the router raises NotFound before any handler runs.
not_found(st, conn, lg) ==
    [store |-> st, log |-> lg, status |-> 404,
     body |-> [html |-> "Not Found"], raised |-> NoExc, escaped |-> FALSE]

(* ---------------------------- initial state ---------------------------- *)

\* pushes[k].ok: k was absent and since then only successful /list/k/push
\* requests changed it; pushes[k].vals: their values, in request order.
Fresh == [ok |-> TRUE, vals |-> <<>>]
Tainted == [ok |-> FALSE, vals |-> <<>>]

NoRequest ==
    [path |-> <<"-">>, endpoint |-> "none", key |-> "", status |-> 0,
     body |-> [none |-> TRUE], raised |-> NoExc, escaped |-> FALSE,
     up |-> TRUE]

Init ==
    /\ started = FALSE
    /\ stdout = <<>>
    /\ up \in BOOLEAN
    /\ store = InitialStore
    /\ log = <<>>
    /\ last = NoRequest
    /\ nreq = 0
    /\ pushes = [k \in Segs |->
                    IF store[Encode(k)] = Absent THEN Fresh ELSE Tainted]

\* The module body: r = redis.Redis(...) connects lazily, r.ping() raises
\* ConnectionError when the server is unreachable, and either way a line is
\* printed and the routes are registered.
Startup ==
    /\ ~started
    /\ started' = TRUE
    /\ stdout' = Append(stdout, IF up THEN "Connected to Redis successfully!"
                                ELSE "Failed to connect to Redis.")
    /\ UNCHANGED <<up, store, log, last, nreq, pushes>>

\* The server becomes unreachable, or reachable again.
StoreDown ==
    /\ up
    /\ up' = FALSE
    /\ UNCHANGED <<started, stdout, store, log, last, nreq, pushes>>

StoreUp ==
    /\ ~up
    /\ up' = TRUE
    /\ UNCHANGED <<started, stdout, store, log, last, nreq, pushes>>

\* The key a request addresses: its <key> argument, visit_count for /visits.
KeyOf(path) ==
    LET rule == Route[path] IN
    IF \E i \in 1..Len(rule.pat) :
          rule.pat[i].kind # "static" /\ rule.pat[i].name = "key"
    THEN Arg(path, "key")
    ELSE IF rule.endpoint = "visit_counter" THEN VisitKey
    ELSE ""

\* pushes after a request on path left the store as st2.
NextPushes(path, st2, status) ==
    [k \in Segs |->
        IF Route[path].endpoint = "push_list" /\ k = KeyOf(path)
        THEN IF status = 200 /\ pushes[k].ok
             THEN [ok |-> TRUE,
                   vals |-> Append(pushes[k].vals, Arg(path, "value"))]
             ELSE Tainted
        ELSE IF st2[Encode(k)] # store[Encode(k)] THEN Tainted
        ELSE pushes[k]]

\* One request served: the handler's result becomes the new state.
Serve(path, res) ==
    /\ started
    /\ nreq < MaxReqs
    /\ store' = res.store
    /\ log' = res.log
    /\ last' = [path |-> path, endpoint |-> Route[path].endpoint,
                key |-> KeyOf(path), status |-> res.status,
                body |-> res.body, raised |-> res.raised,
                escaped |-> res.escaped, up |-> up]
    /\ nreq' = nreq + 1
    /\ pushes' = NextPushes(path, res.store, res.status)
    /\ UNCHANGED <<started, stdout, up>>

Home ==
    \E path \in PathsOf("home") :
        Serve(path, home(store, up, log))

SetValue ==
    \E path \in PathsOf("set_value") :
        Serve(path, set_value(store, up, log,
                                 Arg(path, "key"), Arg(path, "value")))

GetValue ==
    \E path \in PathsOf("get_value") :
        Serve(path, get_value(store, up, log, Arg(path, "key")))

PushList ==
    \E path \in PathsOf("push_list") :
        Serve(path, push_list(store, up, log,
                                 Arg(path, "key"), Arg(path, "value")))

GetList ==
    \E path \in PathsOf("get_list") :
        Serve(path, get_list(store, up, log, Arg(path, "key")))

AddSetMember ==
    \E path \in PathsOf("add_set_member") :
        Serve(path, add_set_member(store, up, log,
                                      Arg(path, "key"), Arg(path, "value")))

ViewSet ==
    \E path \in PathsOf("view_set") :
        Serve(path, view_set(store, up, log, Arg(path, "key")))

SetHashField ==
    \E path \in PathsOf("set_hash_field") :
        Serve(path, set_hash_field(store, up, log, Arg(path, "key"),
                                      Arg(path, "field"), Arg(path, "value")))

ViewHash ==
    \E path \in PathsOf("view_hash") :
        Serve(path, view_hash(store, up, log, Arg(path, "key")))

AddZsetMember ==
    \E path \in PathsOf("add_zset_member") :
        Serve(path, add_zset_member(store, up, log, Arg(path, "key"),
                                       Arg(path, "member"),
                                       StrToInt(Arg(path, "score")).n))

ViewZset ==
    \E path \in PathsOf("view_zset") :
        Serve(path, view_zset(store, up, log, Arg(path, "key")))

VisitCounter ==
    \E path \in PathsOf("visit_counter") :
        Serve(path, visit_counter(store, up, log))

NotFound ==
    \E path \in PathsOf("not_found") :
        Serve(path, not_found(store, up, log))

Next ==
    \/ Startup
    \/ StoreDown
    \/ StoreUp
    \/ Home
    \/ SetValue
    \/ GetValue
    \/ PushList
    \/ GetList
    \/ AddSetMember
    \/ ViewSet
    \/ SetHashField
    \/ ViewHash
    \/ AddZsetMember
    \/ ViewZset
    \/ VisitCounter
    \/ NotFound

Spec == Init /\ [][Next]_vars

(* ------------------------------ properties ----------------------------- *)

ReadEndpoints ==
    {"get_value", "get_list", "view_set", "view_hash", "view_zset"}

WriteEndpoints ==
    {"set_value", "push_list", "add_set_member", "set_hash_field",
     "add_zset_member", "visit_counter"}

\* This step serves a request.
RequestStep == nreq' = nreq + 1

RECURSIVE Reverse(_)
Reverse(q) == IF q = <<>> THEN <<>> ELSE Append(Reverse(Tail(q)), Head(q))

\* A request whose URL is /set/<k>/<v>, whatever the route table does with it.
IsSetUrl(path) == Len(path) = 3 /\ path[1] = "set"

\* C1 (as claimed): with the store reachable, a request /set/k/v followed
\* immediately by the request /get/k makes the second return 200 with
\* value v, for every k, "view" and "add" included.
C1_SetThenGet ==
    [][(/\ RequestStep
        /\ IsSetUrl(last.path)
        /\ last.up
        /\ up
        /\ last'.path = <<"get", last.path[2]>>)
       => (/\ last'.status = 200
           /\ last'.body.value = last.path[3])]_vars

\* C2 (as claimed): a command that raises the wrong-type error is answered
\* with 400 on every route, and a 500 never comes from a wrong-type error.
C2_WrongTypeIs400 ==
    /\ last.raised = WrongType => last.status = 400
    /\ last.status = 500 => last.raised # WrongType

\* C3: with the store reachable, /set/add/k/w on a key holding a scalar
\* returns 400 with status "error" and leaves the store as it was; when
\* the preceding request was the /set/k/v that stored the scalar, the
\* scalar is still v and a following /get/k returns 200 with value v.
C3_SetAddOnScalar ==
    [][(/\ RequestStep
        /\ last'.endpoint = "add_set_member"
        /\ up
        /\ store[Encode(last'.key)].type = "string")
       => (/\ last'.status = 400
           /\ last'.body.status = "error"
           /\ store' = store
           /\ (last.endpoint = "set_value" /\ last.status = 200
                 /\ last.key = last'.key)
              => LET v == last.path[3]
                     g == get_value(store', TRUE, log', last.key)
                 IN /\ store'[Encode(last.key)] =
                          [type |-> "string", val |-> Encode(v)]
                    /\ g.status = 200
                    /\ g.body.value = v
                    /\ g.store = store')]_vars

C3_Witness ==
    /\ last.endpoint = "add_set_member"
    /\ last.status = 400
    /\ last.key = "add"
    /\ store[Encode("add")] = [type |-> "string", val |-> Encode("x")]

\* The counter before a /visits request: 0 when visit_count is absent.
CounterValue(st) ==
    LET e == st[Encode(VisitKey)] IN
    IF e.type = "none" THEN [ok |-> TRUE, n |-> 0]
    ELSE IF e.type = "string" /\ CanDecode(e.val) THEN StrToInt(Decode(e.val))
    ELSE NotInt

\* C4 (as claimed): with the store reachable, every /visits request returns
\* 200, whatever route wrote visit_count before, and its total_visits is the
\* counter's previous value plus one.
C4_VisitsAlwaysCount ==
    [][(RequestStep /\ last'.endpoint = "visit_counter" /\ up)
       => (/\ last'.status = 200
           /\ CounterValue(store).ok
           /\ last'.body.total_visits = CounterValue(store).n + 1)]_vars

\* C5: with the store reachable, reading a list whose key was absent and
\* then received the pushes v1..vn (n >= 1) and no other write returns 200
\* with values [vn, ..., v1].
C5_ListPrependOrder ==
    (/\ last.endpoint = "get_list"
     /\ last.up
     /\ pushes[last.key].ok
     /\ pushes[last.key].vals # <<>>)
    => (/\ last.status = 200
        /\ last.body.values = Reverse(pushes[last.key].vals))

C5_Witness ==
    /\ last.endpoint = "get_list"
    /\ last.status = 200
    /\ pushes[last.key].ok
    /\ pushes[last.key].vals = <<"x", "7">>
    /\ last.body.values = <<"7", "x">>

\* C6: with the store reachable, a read of a key that does not exist
\* returns 404, with status "error" on /get and "empty" on the list, set,
\* hash and sorted-set views; and a read route returns 404 only when the
\* key is absent or holds an empty value of the route's type.
C6_AbsentKeyIs404 ==
    /\ (/\ last.endpoint \in ReadEndpoints
        /\ last.up
        /\ store[Encode(last.key)] = Absent)
       => (/\ last.status = 404
           /\ last.body.status =
                 IF last.endpoint = "get_value" THEN "error" ELSE "empty")
    /\ (last.endpoint \in ReadEndpoints /\ last.status = 404)
       => \/ store[Encode(last.key)] = Absent
          \/ /\ last.endpoint = "get_value"
             /\ store[Encode(last.key)] =
                   [type |-> "string", val |-> EmptyBytes]

C6_Witness ==
    /\ last.endpoint = "get_list"
    /\ last.up
    /\ store[Encode(last.key)] = Absent
    /\ last.status = 404
    /\ last.body.status = "empty"

\* C7 (as claimed): every request appends exactly one line to the log, so
\* the log holds as many lines as requests were served.
C7_OneLinePerRequest == Len(log) = nreq

\* C8: every request is answered with one of 200, 400, 404, 500; no
\* exception leaves a handler, and every exception raised in a handler (by
\* the command or by decoding its reply) becomes a JSON body with status
\* "error" and a message, under status 400 or 500.
C8_ErrorsBecomeResponses ==
    last.endpoint # "none"
    => (/\ last.status \in {200, 400, 404, 500}
        /\ ~last.escaped
        /\ last.raised # NoExc
           => (/\ last.status \in {400, 500}
               /\ DOMAIN last.body = {"status", "message"}
               /\ last.body.status = "error"))

C8_Witness ==
    /\ last.endpoint = "get_value"
    /\ last.raised = UnicodeDecodeError
    /\ last.status = 500
    /\ last.body.status = "error"

StartupFailed == started /\ stdout = <<"Failed to connect to Redis.">>

StoreBacked == ReadEndpoints \cup WriteEndpoints

C10_Frame ==
    [][RequestStep
       => (/\ last'.endpoint \notin WriteEndpoints => store' = store
           /\ last'.endpoint \in WriteEndpoints
              => \A k \in StoreKeys \ {Encode(last'.key)} :
                    store'[k] = store[k])]_vars

C10_Witness ==
    /\ last.endpoint = "get_value"
    /\ last.status = 200
    /\ store[Encode(last.key)].type = "string"
    /\ \E k \in StoreKeys \ {Encode(last.key)} : store[k].type = "list"

====
